---- MODULE Spec2Model ----
(***************************************************************************)
(* Healthcare AI benchmark charts: the data pipeline of src/process_data.py *)
(* (filter -> merge -> sort), the frontier calculator it feeds, and the     *)
(* tabbed page of src/visualize.py.                                         *)
(*                                                                          *)
(* A table (pandas DataFrame) is a record [cols, rows]: cols is the set of  *)
(* column names, rows the sequence of rows, each a function from cols to    *)
(* values.  Scores are integers in hundredths (150 is the raw score 1.50);  *)
(* dates are day numbers.  NA is the missing value (NaN).                   *)
(***************************************************************************)
EXTENDS Integers, Sequences, FiniteSets, TLC

VARIABLES
    pc,            \* position of the Filter/Merge pipeline
    metrics_df,    \* raw MAST metrics table
    dates_df,      \* release-date table
    filtered,      \* result of filter_mast_metrics
    merged,        \* result of merge_with_dates
    chart,         \* result of prepare_chart_data / load_mast_data
    fpc,           \* position of the frontier calculation
    df,            \* input table of calculate_frontier
    benchmark_name,\* display name given to calculate_frontier
    frontier,      \* result of calculate_frontier
    ppc,           \* position of the tabbed page: its creation, then its use
    benchmark_data,\* the mapping given to create_tabbed_benchmark_page
    use_dark_theme,\* the theme given to create_tabbed_benchmark_page
    written,       \* the files create_tabbed_benchmark_page has written
    page,          \* the page: its tabs, attributions and script state
    cache,         \* the cache file of fetch_mast_metrics: its text, or NA
    fcall,         \* the last call of fetch_mast_metrics and what it did
    ncalls,        \* calls of fetch_mast_metrics so far
    mpc,           \* position of main()
    mi,            \* main(): the block or loop item being worked on
    outcome,       \* main(): what reading each source's files comes to
    attempts,      \* main(): how often each source's load was started
    frontier_data, \* main(): the benchmarks whose frontier is computed
    csv,           \* loaders: the data file
    benchmark_id,  \* loaders: the benchmark asked for
    loaded,        \* loaders: the loader called and what it came to
    data_dir,      \* load_all_benchmarks: the data file of each benchmark
    all_data,      \* load_all_benchmarks: the tables loaded so far
    apc,           \* load_all_benchmarks: position
    ai             \* load_all_benchmarks: the benchmark the loop is at

vars == <<pc, metrics_df, dates_df, filtered, merged, chart,
          fpc, df, benchmark_name, frontier,
          ppc, benchmark_data, use_dark_theme, written, page,
          cache, fcall, ncalls,
          mpc, mi, outcome, attempts, frontier_data,
          csv, benchmark_id, loaded,
          data_dir, all_data, apc, ai>>

pipeVars == <<pc, metrics_df, dates_df, filtered, merged, chart>>
frontVars == <<fpc, df, benchmark_name, frontier>>
pageVars == <<ppc, benchmark_data, use_dark_theme, written, page>>
fetchVars == <<cache, fcall, ncalls>>
mainVars == <<mpc, mi, outcome, attempts, frontier_data>>
loadVars == <<csv, benchmark_id, loaded>>
allVars == <<data_dir, all_data, apc, ai>>

(***************************************************************************)
(* Bounds of the model.                                                     *)
(***************************************************************************)
MaxMetricsRows == 2
MaxDatesRows == 2
MaxRows == 3
MaxTableLen == 1
MaxCalls == 4
MaxCsvRows == 2
MaxDirRows == 1

(***************************************************************************)
(* Values.                                                                  *)
(***************************************************************************)
NA == "NA"

FILTER_CONFIG ==
    [team |-> "Solo Models", condition |-> "Advisor", metric |-> "OverallScore"]

Teams == {"Solo Models", "Teams"}
Conditions == {"Advisor", "Guardian"}
Metrics == {"OverallScore", "Safety"}
Models == {"A", "B"}
MetricProviders == <<"OpenAI", "Google", "Meta", "Mistral">>
DateProviders == {"Anthropic", NA}
Means == {1, 2}
CiWidths == {1}

EmptyTable(cols) == [cols |-> cols, rows |-> <<>>]

\* Sequences over S of length at most n.
SeqUpTo(S, n) == UNION {[1..k -> S] : k \in 0..n}

(***************************************************************************)
(* Input tables.                                                            *)
(***************************************************************************)
RawCols == {"Team", "Condition", "Metric", "Model", "Provider", "mean", "ci"}

\* Rows of the raw metrics file: the configured triple, or a triple that
\* differs from it in one predicate column.
RawKeys ==
    {k \in Teams \X Conditions \X Metrics :
        Cardinality({i \in 1..3 :
            k[i] # <<FILTER_CONFIG.team, FILTER_CONFIG.condition,
                     FILTER_CONFIG.metric>>[i]}) <= 1}

\* The mean of a row that fails a predicate is one value: the filter drops the row.
RawRows ==
    {r \in {[Team |-> k[1], Condition |-> k[2], Metric |-> k[3], Model |-> m,
             mean |-> s, ci |-> c] :
                k \in RawKeys, m \in Models, s \in Means, c \in CiWidths} :
        \/ r.mean = 1
        \/ /\ r.Team = FILTER_CONFIG.team
           /\ r.Condition = FILTER_CONFIG.condition
           /\ r.Metric = FILTER_CONFIG.metric}

\* Row i of the raw file names provider MetricProviders[i], so that the score
\* rows are told apart in a merged table.
Provided(rows) ==
    [i \in 1..Len(rows) |->
        [c \in DOMAIN rows[i] \cup {"Provider"} |->
            IF c = "Provider" THEN MetricProviders[i] ELSE rows[i][c]]]

RawTables ==
    {[cols |-> RawCols, rows |-> Provided(r)] :
        r \in SeqUpTo(RawRows, MaxMetricsRows)}

\* Rows of the release-date file.  Row j carries release date j, so that the
\* rows of the file are told apart in a merged table.
DateRowsWithProvider ==
    {[model |-> m, provider |-> p] : m \in Models, p \in DateProviders}

DateRowsNoProvider == {[model |-> m] : m \in Models}

Dated(rows) ==
    [j \in 1..Len(rows) |->
        [c \in DOMAIN rows[j] \cup {"release_date"} |->
            IF c = "release_date" THEN j ELSE rows[j][c]]]

DateTables ==
    {[cols |-> {"model", "release_date", "provider"}, rows |-> Dated(r)] :
        r \in SeqUpTo(DateRowsWithProvider, MaxDatesRows)}
    \cup
    {[cols |-> {"model", "release_date"}, rows |-> Dated(r)] :
        r \in SeqUpTo(DateRowsNoProvider, MaxDatesRows)}

(***************************************************************************)
(* filter_mast_metrics                                                      *)
(***************************************************************************)
\* df[mask]: the rows satisfying the mask, in order.
SelectRows(rows, Keep(_)) == SelectSeq(rows, Keep)

FilterMaskNoMetric(r) ==
    /\ r["Team"] = FILTER_CONFIG.team
    /\ r["Condition"] = FILTER_CONFIG.condition

FilterMask(r) ==
    /\ r["Team"] = FILTER_CONFIG.team
    /\ r["Condition"] = FILTER_CONFIG.condition
    /\ r["Metric"] = FILTER_CONFIG.metric

RenameCol(c) ==
    CASE c = "Model" -> "model"
      [] c = "Provider" -> "provider"
      [] c = "mean" -> "score"
      [] c = "ci" -> "ci_width"
      [] OTHER -> c

RenameRow(r) ==
    [c \in {RenameCol(k) : k \in DOMAIN r} |->
        r[CHOOSE k \in DOMAIN r : RenameCol(k) = c]]

filter_mast_metrics(t) ==
    LET kept == SelectRows(t.rows, FilterMask)
    IN  [cols |-> {RenameCol(c) : c \in t.cols},
         rows |-> [i \in 1..Len(kept) |-> RenameRow(kept[i])]]

(***************************************************************************)
(* merge_with_dates                                                         *)
(***************************************************************************)
\* Columns other than the join key that both tables have: pd.merge renames
\* them with the suffixes.
Overlap(lcols, rcols) == (lcols \cap rcols) \ {"model"}

LeftName(c, lcols, rcols) ==
    IF c \in Overlap(lcols, rcols) THEN c \o "_metrics" ELSE c

RightName(c, lcols, rcols) ==
    IF c \in Overlap(lcols, rcols) THEN c \o "_dates" ELSE c

MergedCols(lcols, rcols) ==
    {LeftName(c, lcols, rcols) : c \in lcols}
    \cup {RightName(c, lcols, rcols) : c \in rcols \ {"model"}}

\* One output row of the join: the left row's values, then the right row's.
MergeRow(l, r, lcols, rcols) ==
    [c \in MergedCols(lcols, rcols) |->
        IF \E k \in lcols : LeftName(k, lcols, rcols) = c
        THEN l[CHOOSE k \in lcols : LeftName(k, lcols, rcols) = c]
        ELSE r[CHOOSE k \in rcols \ {"model"} : RightName(k, lcols, rcols) = c]]

KeyMatchAny(l, r) == TRUE

\* on='model': the rows pair up when their keys are equal.
KeyMatch(l, r) == l["model"] = r["model"]

\* The right rows a left row is paired with, in the right table's order.
MatchesOf(l, rrows) ==
    LET Hit(r) == KeyMatch(l, r) IN SelectSeq(rrows, Hit)

\* A row of right-table columns holding no value (how='left' fills these).
NoMatchRow(rcols) == [c \in rcols |-> NA]

JoinOneLeft(l, rrows, lcols, rcols) ==
    LET hits == MatchesOf(l, rrows)
    IN  IF hits = <<>>
        THEN <<MergeRow(l, NoMatchRow(rcols), lcols, rcols)>>
        ELSE [k \in 1..Len(hits) |-> MergeRow(l, hits[k], lcols, rcols)]

\* how='inner': a left row yields one output row per matching right row,
\* and none when nothing matches.
JoinOne(l, rrows, lcols, rcols) ==
    LET hits == MatchesOf(l, rrows)
    IN  [k \in 1..Len(hits) |-> MergeRow(l, hits[k], lcols, rcols)]

RECURSIVE JoinRows(_, _, _, _)
JoinRows(lrows, rrows, lcols, rcols) ==
    IF lrows = <<>> THEN <<>>
    ELSE JoinOne(Head(lrows), rrows, lcols, rcols)
         \o JoinRows(Tail(lrows), rrows, lcols, rcols)

pd_merge(m, d) ==
    [cols |-> MergedCols(m.cols, d.cols),
     rows |-> JoinRows(m.rows, d.rows, m.cols, d.cols)]

FillnaReversed(a, b) == IF b = NA THEN a ELSE b

\* Series.fillna: the value itself unless it is missing.
Fillna(a, b) == IF a = NA THEN b ELSE a

\* merged['provider'] = ...; merged.drop(columns=[...])
CoalesceProvider(r) ==
    [c \in (DOMAIN r \ {"provider_dates", "provider_metrics"}) \cup {"provider"} |->
        IF c = "provider"
        THEN Fillna(r["provider_dates"], r["provider_metrics"])
        ELSE r[c]]

merge_with_dates(m, d) ==
    LET j == pd_merge(m, d)
    IN  IF "provider_dates" \in j.cols /\ "provider_metrics" \in j.cols
        THEN [cols |-> (j.cols \ {"provider_dates", "provider_metrics"})
                       \cup {"provider"},
              rows |-> [i \in 1..Len(j.rows) |-> CoalesceProvider(j.rows[i])]]
        ELSE j

(***************************************************************************)
(* prepare_chart_data / load_mast_data                                      *)
(***************************************************************************)
BeforeAscending(a, b) == a["score"] <= b["score"]

\* ascending=False: a row stays ahead of a row whose score is not higher.
BeforeDescending(a, b) == a["score"] >= b["score"]

\* Insert row r into the sorted sequence s after every row that may stay
\* ahead of it (equal keys keep their order).
RECURSIVE InsertByScore(_, _)
InsertByScore(r, s) ==
    IF s = <<>> THEN <<r>>
    ELSE IF BeforeDescending(Head(s), r)
         THEN <<Head(s)>> \o InsertByScore(r, Tail(s))
         ELSE <<r>> \o s

RECURSIVE SortByScore(_)
SortByScore(rows) ==
    IF rows = <<>> THEN <<>>
    ELSE InsertByScore(rows[Len(rows)], SortByScore(SubSeq(rows, 1, Len(rows) - 1)))

\* merged.sort_values('score', ascending=False)
sort_values_score(t) == [cols |-> t.cols, rows |-> SortByScore(t.rows)]

WithBounds(r) ==
    [c \in DOMAIN r \cup {"score_lower", "score_upper"} |->
        CASE c = "score_lower" -> r["score"] - r["ci_width"]
          [] c = "score_upper" -> r["score"] + r["ci_width"]
          [] OTHER -> r[c]]

\* The confidence-interval columns, added when ci_width is a column.
AddCiBounds(t) ==
    IF "ci_width" \in t.cols
    THEN [cols |-> t.cols \cup {"score_lower", "score_upper"},
          rows |-> [i \in 1..Len(t.rows) |-> WithBounds(t.rows[i])]]
    ELSE t

prepare_chart_data(m, d) ==
    AddCiBounds(sort_values_score(merge_with_dates(filter_mast_metrics(m), d)))

(***************************************************************************)
(* calculate_frontier (the Frontier Calculator, section 4.3)                *)
(***************************************************************************)
BENCHMARK_NAMES == {"MAST"}
ModelNames == <<"A", "B", "C", "D", "E">>
FrontierScores == {0, 50, 55, 60, 150, 200}
FrontierDates == {1, 2, 3}
FrontierCols == {"model", "score", "release_date"}

\* Row i of a score table is model ModelNames[i]: a model is unique per
\* benchmark.
Named(rows) ==
    [i \in 1..Len(rows) |->
        [model |-> ModelNames[i], score |-> rows[i][1], release_date |-> rows[i][2]]]

FrontierTables ==
    {[cols |-> FrontierCols, rows |-> Named(r)] :
        r \in SeqUpTo(FrontierScores \X FrontierDates, MaxRows)}

\* The threshold of the scale heuristic, 1.5, in hundredths.
ScaleThreshold == 150

GoesAfterUnstable(a, r) == a["release_date"] < r["release_date"]

\* Ascending and stable: r goes after every row dated no later than r.
GoesAfter(a, r) == a["release_date"] <= r["release_date"]

RECURSIVE InsertByDate(_, _)
InsertByDate(r, s) ==
    IF s = <<>> THEN <<r>>
    ELSE IF GoesAfter(Head(s), r)
         THEN <<Head(s)>> \o InsertByDate(r, Tail(s))
         ELSE <<r>> \o s

RECURSIVE SortByDate(_)
SortByDate(rows) ==
    IF rows = <<>> THEN <<>>
    ELSE InsertByDate(rows[Len(rows)], SortByDate(SubSeq(rows, 1, Len(rows) - 1)))

RECURSIVE MaxScore(_)
MaxScore(rows) ==
    IF Len(rows) = 1 THEN rows[1]["score"]
    ELSE LET m == MaxScore(Tail(rows))
         IN  IF rows[1]["score"] > m THEN rows[1]["score"] ELSE m

ScaleFactorNever(mx) == 1

\* Fractions (maximum at most 1.5) become percentages; percentages stay.
ScaleFactor(mx) == IF mx <= ScaleThreshold THEN 100 ELSE 1

AdvancesOrTies(hasMax, max, score) == ~hasMax \/ score >= max

\* A new state of the art: the running maximum strictly increases.
Advances(hasMax, max, score) == ~hasMax \/ score > max

FrontierPoint(r, factor, name) ==
    [model |-> r["model"], release_date |-> r["release_date"],
     score_pct |-> r["score"] * factor, benchmark_name |-> name]

RunningScale(tableMax, runMax) == ScaleFactor(runMax)

\* One scale for the table, from the maximum raw score observed in it.
TableScale(tableMax, runMax) == ScaleFactor(tableMax)

\* The left-to-right scan with its running maximum.
RECURSIVE Scan(_, _, _, _, _)
Scan(rows, hasMax, max, tableMax, name) ==
    IF rows = <<>> THEN <<>>
    ELSE LET r == Head(rows)
         IN  IF Advances(hasMax, max, r["score"])
             THEN <<FrontierPoint(r, TableScale(tableMax, r["score"]), name)>>
                  \o Scan(Tail(rows), TRUE, r["score"], tableMax, name)
             ELSE Scan(Tail(rows), hasMax, max, tableMax, name)

calculate_frontier(t, name) ==
    IF t.rows = <<>> THEN <<>>
    ELSE Scan(SortByDate(t.rows), FALSE, 0, MaxScore(t.rows), name)

(***************************************************************************)
(* fetch_mast_metrics                                                       *)
(***************************************************************************)
\* What the remote file may hold.
Texts == {"v1", "v2", "v3"}

\* What a cache file left by an earlier run holds.
OldTexts == {"v0"}

\* requests.get raises (no connection, timeout), or raise_for_status raises
\* on a non-success status.
RequestFailures == {"RequestException", "HTTPError"}

\* What one requests.get can come to: a failure, or the text of the file.
Responses == RequestFailures \cup Texts

NoCall ==
    [force_refresh |-> FALSE, cache_before |-> NA, requests |-> 0,
     response |-> NA, raised |-> NA, returned |-> NA]

UsesCacheIgnoringForce(c, force_refresh) == c # NA

\* if cache_path.exists() and not force_refresh
UsesCache(c, force_refresh) == c # NA /\ ~force_refresh

RequestsWithRetry(response) == IF response \in RequestFailures THEN 2 ELSE 1

\* One requests.get per download, whatever comes of it.
RequestsMade(response) == 1

CacheWrittenBeforeCheck(c, response) ==
    IF response = "RequestException" THEN c ELSE response

\* cache_path.write_text(response.text) comes after raise_for_status: a
\* failed download leaves the file as it was.
CacheAfterDownload(c, response) ==
    IF response \in RequestFailures THEN c ELSE response

\* One call: the cache afterwards and the record of the call.
fetch_mast_metrics(c, force_refresh, response) ==
    IF UsesCache(c, force_refresh)
    THEN [cache |-> c,
          call |-> [force_refresh |-> force_refresh, cache_before |-> c,
                    requests |-> 0, response |-> NA, raised |-> NA,
                    returned |-> c]]
    ELSE [cache |-> CacheAfterDownload(c, response),
          call |-> [force_refresh |-> force_refresh, cache_before |-> c,
                    requests |-> RequestsMade(response), response |-> response,
                    raised |-> IF response \in RequestFailures
                               THEN response ELSE NA,
                    returned |-> IF response \in RequestFailures
                                 THEN NA
                                 ELSE CacheAfterDownload(c, response)]]

IdleFetch ==
    /\ cache = NA
    /\ fcall = NoCall
    /\ ncalls = 0

InitFetch ==
    /\ cache \in {NA} \cup OldTexts
    /\ fcall = NoCall
    /\ ncalls = 0

\* A call that reads the cache: no request is made.
FetchCached ==
    /\ ncalls < MaxCalls
    /\ \E force_refresh \in BOOLEAN :
        /\ UsesCache(cache, force_refresh)
        /\ LET f == fetch_mast_metrics(cache, force_refresh, NA)
           IN  cache' = f.cache /\ fcall' = f.call
    /\ ncalls' = ncalls + 1
    /\ UNCHANGED <<pipeVars, frontVars, pageVars, mainVars, loadVars, allVars>>

\* A call that downloads.
FetchDownload ==
    /\ ncalls < MaxCalls
    /\ \E force_refresh \in BOOLEAN, response \in Responses :
        /\ ~UsesCache(cache, force_refresh)
        /\ LET f == fetch_mast_metrics(cache, force_refresh, response)
           IN  cache' = f.cache /\ fcall' = f.call
    /\ ncalls' = ncalls + 1
    /\ UNCHANGED <<pipeVars, frontVars, pageVars, mainVars, loadVars, allVars>>

NextFetch == FetchCached \/ FetchDownload

(***************************************************************************)
(* create_tabbed_benchmark_page and the page it writes                      *)
(***************************************************************************)
\* The keys of BENCHMARKS, in the order of the configuration.
BENCHMARK_IDS == <<"mast", "healthbench", "medqa", "medhelm">>

BenchmarkIdSet == {BENCHMARK_IDS[i] : i \in 1..Len(BENCHMARK_IDS)}

\* benchmark_data: a dict keeps its keys in insertion order, so it is a
\* sequence of distinct keys, each with its table; the page looks only at a
\* table's length.
BenchmarkData ==
    {b \in SeqUpTo([id : BenchmarkIdSet, len : 0..MaxTableLen], Len(BENCHMARK_IDS)) :
        \A i, j \in 1..Len(b) : i # j => b[i].id # b[j].id}

\* if len(df) > 0
NonEmptyEntry(e) == e.len > 0

\* The keys of figures_json, in order: the benchmarks that have rows.
FigureKeys(data) ==
    LET kept == SelectSeq(data, NonEmptyEntry)
    IN  [i \in 1..Len(kept) |-> kept[i].id]

SeqRange(s) == {s[i] : i \in 1..Len(s)}

\* The attribution blocks: the configured benchmarks that have a figure.
Attributions(keys) ==
    LET InFigures(id) == id \in SeqRange(keys)
    IN  SelectSeq(BENCHMARK_IDS, InFigures)

ThemeSuffix(dark) == IF dark THEN "_dark" ELSE "_white"

PageFiles(dark) ==
    {"healthcare_ai_benchmarks" \o ThemeSuffix(dark) \o ".html",
     "healthcare_ai_benchmarks" \o ThemeSuffix(dark) \o "_embed.html"}

NoPage ==
    [tabs |-> <<>>, attributions |-> <<>>, activeTabs |-> {},
     activeAttributions |-> {}, currentBenchmark |-> NA, shown |-> NA]

WrittenPageLastActive(keys) ==
    [tabs |-> keys, attributions |-> Attributions(keys),
     activeTabs |-> {Len(keys)}, activeAttributions |-> {},
     currentBenchmark |-> NA, shown |-> NA]

\* The page as written: the first tab carries the class "active", no
\* attribution does, and the script has not run.
WrittenPage(keys) ==
    [tabs |-> keys, attributions |-> Attributions(keys),
     activeTabs |-> {1}, activeAttributions |-> {},
     currentBenchmark |-> NA, shown |-> NA]

IdlePage ==
    /\ ppc = "idle"
    /\ benchmark_data = <<>>
    /\ use_dark_theme = FALSE
    /\ written = {}
    /\ page = NoPage

InitPage ==
    /\ ppc = "start"
    /\ benchmark_data \in BenchmarkData
    /\ use_dark_theme \in BOOLEAN
    /\ written = {}
    /\ page = NoPage

\* list(figures_json.keys())[0] raises IndexError when no benchmark has rows:
\* the call ends there, before any file is opened.
CreatePageFails ==
    /\ ppc = "start"
    /\ FigureKeys(benchmark_data) = <<>>
    /\ ppc' = "IndexError"
    /\ UNCHANGED <<benchmark_data, use_dark_theme, written, page, pipeVars, frontVars, fetchVars, mainVars, loadVars, allVars>>

CreatePage ==
    /\ ppc = "start"
    /\ FigureKeys(benchmark_data) # <<>>
    /\ page' = WrittenPage(FigureKeys(benchmark_data))
    /\ written' = PageFiles(use_dark_theme)
    /\ ppc' = "written"
    /\ UNCHANGED <<benchmark_data, use_dark_theme, pipeVars, frontVars, fetchVars, mainVars, loadVars, allVars>>

\* The script at page load: show the first benchmark and mark its
\* attribution.
LoadPage ==
    /\ ppc = "written"
    /\ LET first == page.tabs[1]
       IN  page' = [page EXCEPT !.currentBenchmark = first,
                                !.shown = first,
                                !.activeAttributions = @ \cup {first}]
    /\ ppc' = "loaded"
    /\ UNCHANGED <<benchmark_data, use_dark_theme, written, pipeVars, frontVars, fetchVars, mainVars, loadVars, allVars>>

\* The click handler of tab i.
ClickTab(i) ==
    /\ ppc = "loaded"
    /\ LET benchmark == page.tabs[i]
       IN  page' = [page EXCEPT !.activeTabs = {i},
                                !.activeAttributions = {benchmark},
                                !.shown = benchmark,
                                !.currentBenchmark = benchmark]
    /\ UNCHANGED <<ppc, benchmark_data, use_dark_theme, written, pipeVars, frontVars, fetchVars, mainVars, loadVars, allVars>>

ClickSomeTab == \E i \in 1..Len(page.tabs) : ClickTab(i)

NextPage == CreatePageFails \/ CreatePage \/ LoadPage \/ ClickSomeTab

(***************************************************************************)
(* The loaders of curated files: load_benchmark_data, load_other_benchmark, *)
(* load_release_dates                                                       *)
(***************************************************************************)
\* What a release_date cell of a file holds: a date, something that is no
\* date, or nothing.
DateTexts == {"2024-01-15", "soon", ""}

Unparseable == {"soon"}

\* pd.to_datetime of one value: an empty cell becomes NaT, a date its
\* Timestamp.
to_datetime(text) ==
    IF text = "" THEN "NaT" ELSE "Timestamp('" \o text \o " 00:00:00')"

Timestamps == {to_datetime(text) : text \in DateTexts \ Unparseable}

CsvModels == <<"A", "B", "C">>

\* The rows of a data file: row i is model i with score i.
CsvRowNoDate(i) == [c \in {"model", "score"} |->
                       IF c = "model" THEN CsvModels[i] ELSE i]

CsvRowDated(i, text) ==
    [c \in {"model", "score", "release_date"} |->
        IF c = "model" THEN CsvModels[i]
        ELSE IF c = "score" THEN i
        ELSE text]

CsvTables ==
    {[cols |-> {"model", "score"}, rows |-> [i \in 1..n |-> CsvRowNoDate(i)]] :
        n \in 0..MaxCsvRows}
    \cup {[cols |-> {"model", "score", "release_date"},
           rows |-> [i \in 1..Len(texts) |-> CsvRowDated(i, texts[i])]] :
            texts \in SeqUpTo(DateTexts, MaxCsvRows)}

\* A data file: missing, or holding a table.
CsvFiles == {[exists |-> FALSE, table |-> EmptyTable({})]}
            \cup [exists : {TRUE}, table : CsvTables]

BenchmarkIdsAsked == {"healthbench", "unknown"}

NameOf(id) ==
    CASE id = "mast" -> "MAST"
      [] id = "healthbench" -> "HealthBench"
      [] id = "medqa" -> "MedQA"
      [] id = "medhelm" -> "MedHELM"

NoLoad == [loader |-> NA, error |-> NA, table |-> EmptyTable({})]

Raised(loader, error) ==
    [loader |-> loader, error |-> error, table |-> EmptyTable({})]

Returned(loader, t) == [loader |-> loader, error |-> NA, table |-> t]

\* df['release_date'] = pd.to_datetime(df['release_date'])
ConvertDates(t) ==
    [cols |-> t.cols,
     rows |-> [i \in 1..Len(t.rows) |->
                  [t.rows[i] EXCEPT !["release_date"] = to_datetime(@)]]]

AllParse(t) ==
    \A i \in 1..Len(t.rows) : t.rows[i]["release_date"] \notin Unparseable

WithColumn(t, c, v) ==
    [cols |-> t.cols \cup {c},
     rows |-> [i \in 1..Len(t.rows) |->
                  [k \in t.cols \cup {c} |-> IF k = c THEN v ELSE t.rows[i][k]]]]

\* if 'release_date' in df.columns
HasDates(t) == "release_date" \in t.cols

load_benchmark_data(file, id) ==
    IF id \notin BenchmarkIdSet THEN Raised("load_benchmark_data", "ValueError")
    ELSE IF ~file.exists
    THEN Raised("load_benchmark_data", "FileNotFoundError")
    ELSE IF HasDates(file.table) /\ ~AllParse(file.table)
    THEN Raised("load_benchmark_data", "DateParseError")
    ELSE LET d == IF HasDates(file.table) THEN ConvertDates(file.table)
                  ELSE file.table
         IN  Returned("load_benchmark_data",
                      WithColumn(WithColumn(d, "benchmark_id", id),
                                 "benchmark_name", NameOf(id)))

load_other_benchmark(file, id) ==
    IF id \notin BenchmarkIdSet THEN Raised("load_other_benchmark", "KeyError")
    ELSE IF ~file.exists
    THEN Returned("load_other_benchmark", EmptyTable({}))
    ELSE IF "release_date" \notin file.table.cols
    THEN Raised("load_other_benchmark", "KeyError")
    ELSE IF ~AllParse(file.table)
    THEN Raised("load_other_benchmark", "DateParseError")
    ELSE Returned("load_other_benchmark",
                  sort_values_score(ConvertDates(file.table)))

load_release_dates(file) ==
    IF ~file.exists THEN Raised("load_release_dates", "FileNotFoundError")
    ELSE IF "release_date" \notin file.table.cols
    THEN Raised("load_release_dates", "KeyError")
    ELSE IF ~AllParse(file.table)
    THEN Raised("load_release_dates", "DateParseError")
    ELSE Returned("load_release_dates", ConvertDates(file.table))

IdleLoad ==
    /\ csv = [exists |-> FALSE, table |-> EmptyTable({})]
    /\ benchmark_id = ""
    /\ loaded = NoLoad

InitLoad ==
    /\ csv \in CsvFiles
    /\ benchmark_id \in BenchmarkIdsAsked
    /\ loaded = NoLoad

LoadBenchmarkData ==
    /\ loaded = NoLoad
    /\ loaded' = load_benchmark_data(csv, benchmark_id)
    /\ UNCHANGED <<csv, benchmark_id, pipeVars, frontVars, pageVars, fetchVars,
                   mainVars, allVars>>

LoadOtherBenchmark ==
    /\ loaded = NoLoad
    /\ loaded' = load_other_benchmark(csv, benchmark_id)
    /\ UNCHANGED <<csv, benchmark_id, pipeVars, frontVars, pageVars, fetchVars,
                   mainVars, allVars>>

LoadReleaseDates ==
    /\ loaded = NoLoad
    /\ loaded' = load_release_dates(csv)
    /\ UNCHANGED <<csv, benchmark_id, pipeVars, frontVars, pageVars, fetchVars,
                   mainVars, allVars>>

NextLoad == LoadBenchmarkData \/ LoadOtherBenchmark \/ LoadReleaseDates

(***************************************************************************)
(* load_all_benchmarks                                                      *)
(***************************************************************************)
\* The data file a directory holds for a benchmark.
DirFiles ==
    {f \in CsvFiles : Len(f.table.rows) <= MaxDirRows}

NoFile == [exists |-> FALSE, table |-> EmptyTable({})]

\* except FileNotFoundError as e
CatchesInLoadAll(error) == error = "FileNotFoundError"

IdleLoadAll ==
    /\ data_dir = [id \in BenchmarkIdSet |-> NoFile]
    /\ all_data = <<>>
    /\ apc = "idle"
    /\ ai = 0

InitLoadAll ==
    /\ data_dir \in [BenchmarkIdSet -> DirFiles]
    /\ all_data = <<>>
    /\ apc = "loop"
    /\ ai = 1

\* The benchmark loads: all_data[benchmark_id] = df.
LoadAllKeeps ==
    /\ apc = "loop" /\ ai <= Len(BENCHMARK_IDS)
    /\ LET id == BENCHMARK_IDS[ai]
           l == load_benchmark_data(data_dir[id], id)
       IN  /\ l.error = NA
           /\ all_data' = Append(all_data, [id |-> id, table |-> l.table])
    /\ ai' = ai + 1
    /\ UNCHANGED <<data_dir, apc, pipeVars, frontVars, pageVars, fetchVars,
                   mainVars, loadVars>>

\* The load raises an error the handler catches: continue.
LoadAllSkips ==
    /\ apc = "loop" /\ ai <= Len(BENCHMARK_IDS)
    /\ LET id == BENCHMARK_IDS[ai]
           l == load_benchmark_data(data_dir[id], id)
       IN  l.error # NA /\ CatchesInLoadAll(l.error)
    /\ ai' = ai + 1
    /\ UNCHANGED <<data_dir, all_data, apc, pipeVars, frontVars, pageVars,
                   fetchVars, mainVars, loadVars>>

\* The load raises an error the handler does not catch: it leaves
\* load_all_benchmarks, and the caller gets no mapping.
LoadAllRaises ==
    /\ apc = "loop" /\ ai <= Len(BENCHMARK_IDS)
    /\ LET id == BENCHMARK_IDS[ai]
           l == load_benchmark_data(data_dir[id], id)
       IN  l.error # NA /\ ~CatchesInLoadAll(l.error)
    /\ apc' = "raised"
    /\ UNCHANGED <<data_dir, all_data, ai, pipeVars, frontVars, pageVars,
                   fetchVars, mainVars, loadVars>>

\* return all_data
LoadAllReturns ==
    /\ apc = "loop" /\ ai > Len(BENCHMARK_IDS)
    /\ apc' = "returned"
    /\ UNCHANGED <<data_dir, all_data, ai, pipeVars, frontVars, pageVars,
                   fetchVars, mainVars, loadVars>>

NextLoadAll == LoadAllKeeps \/ LoadAllSkips \/ LoadAllRaises \/ LoadAllReturns

(***************************************************************************)
(* main()                                                                   *)
(***************************************************************************)
\* What reading a source's files comes to, apart from the download: a file
\* is missing, a value cannot be parsed, or a table of so many rows results.
LoadErrors == {"MissingFileError", "ParseError"}

LoadOutcomes ==
    [error : LoadErrors, rows : {0}] \cup [error : {NA}, rows : 0..MaxTableLen]

NoOutcome == [error |-> NA, rows |-> 0]

NoAttempts == [s \in BenchmarkIdSet |-> 0]

\* load_mast_data: a missing release-date file raises; load_other_benchmark:
\* a missing data file gives an empty table.
RaisesIn(s, o) ==
    IF s = "mast" THEN o.error # NA ELSE o.error = "ParseError"

\* len() of the table a load returns without raising.
RowsOf(o) == o.rows

CatchesMissingFileOnly(error) == error = "MissingFileError"

\* except Exception as e: every failure of a load is caught.
Catches(error) == TRUE

KeepsAny(n) == TRUE

\* if len(mast_df) > 0: only a table with rows enters benchmark_data.
Keeps(n) == n > 0

AfterPagesFirst(label) ==
    CASE label = "load" -> "summary"
      [] label = "summary" -> "tabbed_white"
      [] label = "tabbed_white" -> "tabbed_dark"
      [] label = "tabbed_dark" -> "frontier"
      [] label = "frontier" -> "frontier_charts"
      [] label = "frontier_charts" -> "individual"
      [] label = "individual" -> "done"

\* The phases of main(), in the order of the code.
After(label) ==
    CASE label = "load" -> "summary"
      [] label = "summary" -> "frontier"
      [] label = "frontier" -> "frontier_charts"
      [] label = "frontier_charts" -> "tabbed_white"
      [] label = "tabbed_white" -> "tabbed_dark"
      [] label = "tabbed_dark" -> "individual"
      [] label = "individual" -> "done"

\* Where main() stands after the load block of source number i.
AfterLoad(i) ==
    IF i < Len(BENCHMARK_IDS) THEN [mpc |-> "load", mi |-> i + 1]
    ELSE [mpc |-> After("load"), mi |-> 1]

\* save_chart: the interactive page and the static image.
SavedFiles(base_name) == {base_name \o ".html", base_name \o ".png"}

FrontierFiles ==
    SavedFiles("healthcare_benchmark_frontier_white")
    \cup SavedFiles("healthcare_benchmark_frontier_dark")

ChartFilesWhiteOnly(bid) == SavedFiles(bid \o "_benchmark_chart_white")

\* The individual charts of one benchmark, in both themes.
ChartFiles(bid) ==
    SavedFiles(bid \o "_benchmark_chart_white")
    \cup SavedFiles(bid \o "_benchmark_chart_dark")

IdleMain ==
    /\ mpc = "idle"
    /\ mi = 0
    /\ outcome = [s \in BenchmarkIdSet |-> NoOutcome]
    /\ attempts = NoAttempts
    /\ frontier_data = <<>>

InitMain ==
    /\ mpc = "load"
    /\ mi = 1
    /\ outcome \in [BenchmarkIdSet -> LoadOutcomes]
    /\ attempts = NoAttempts
    /\ frontier_data = <<>>
    /\ cache \in {NA} \cup OldTexts
    /\ fcall = NoCall
    /\ ncalls = 0
    /\ benchmark_data = <<>>
    /\ written = {}
    /\ ppc = "idle"
    /\ use_dark_theme = FALSE
    /\ page = NoPage

\* The end of a load block: the table is kept, or the error is caught and
\* printed, or the error leaves main().
EndLoad(s, error, n) ==
    /\ attempts' = [attempts EXCEPT ![s] = @ + 1]
    /\ IF error # NA
       THEN /\ benchmark_data' = benchmark_data
            /\ IF Catches(error)
               THEN mpc' = AfterLoad(mi).mpc /\ mi' = AfterLoad(mi).mi
               ELSE mpc' = error /\ mi' = mi
       ELSE /\ benchmark_data' =
                   IF Keeps(n) THEN Append(benchmark_data, [id |-> s, len |-> n])
                   ELSE benchmark_data
            /\ mpc' = AfterLoad(mi).mpc /\ mi' = AfterLoad(mi).mi

\* [1/4]: load_mast_data fetches the metrics, reads the release dates,
\* filters and merges.
LoadMast ==
    /\ mpc = "load" /\ mi = 1
    /\ \E response \in (IF UsesCache(cache, FALSE) THEN {NA} ELSE Responses) :
        LET f == fetch_mast_metrics(cache, FALSE, response)
            o == outcome["mast"]
            error == IF f.call.raised # NA THEN "NetworkError"
                     ELSE IF RaisesIn("mast", o) THEN o.error ELSE NA
        IN  /\ cache' = f.cache
            /\ fcall' = f.call
            /\ ncalls' = ncalls + 1
            /\ EndLoad("mast", error, RowsOf(o))
    /\ UNCHANGED <<outcome, frontier_data, written, ppc, use_dark_theme, page,
                   pipeVars, frontVars, loadVars, allVars>>

\* [2/4] to [4/4]: load_other_benchmark.
LoadOther ==
    /\ mpc = "load" /\ mi > 1
    /\ LET s == BENCHMARK_IDS[mi]
           o == outcome[s]
       IN  EndLoad(s, IF RaisesIn(s, o) THEN o.error ELSE NA, RowsOf(o))
    /\ UNCHANGED <<outcome, frontier_data, written, ppc, use_dark_theme, page,
                   fetchVars, pipeVars, frontVars, loadVars, allVars>>

\* The summary of the loaded benchmarks is printed.
Summary ==
    /\ mpc = "summary"
    /\ mpc' = After("summary")
    /\ mi' = 1
    /\ UNCHANGED <<outcome, attempts, frontier_data, pageVars, fetchVars,
                   pipeVars, frontVars, loadVars, allVars>>

\* One turn of the frontier loop.
FrontierOf ==
    /\ mpc = "frontier" /\ mi <= Len(benchmark_data)
    /\ frontier_data' =
           IF NonEmptyEntry(benchmark_data[mi])
           THEN Append(frontier_data, benchmark_data[mi].id)
           ELSE frontier_data
    /\ mi' = mi + 1
    /\ UNCHANGED <<mpc, outcome, attempts, pageVars, fetchVars, pipeVars, frontVars, loadVars, allVars>>

FrontiersDone ==
    /\ mpc = "frontier" /\ mi > Len(benchmark_data)
    /\ mpc' = After("frontier")
    /\ mi' = 1
    /\ UNCHANGED <<outcome, attempts, frontier_data, pageVars, fetchVars,
                   pipeVars, frontVars, loadVars, allVars>>

\* if frontier_data: the combined chart, in both themes.
FrontierCharts ==
    /\ mpc = "frontier_charts"
    /\ written' = IF frontier_data # <<>> THEN written \cup FrontierFiles
                  ELSE written
    /\ mpc' = After("frontier_charts")
    /\ UNCHANGED <<mi, outcome, attempts, frontier_data, ppc, benchmark_data,
                   use_dark_theme, page, fetchVars, pipeVars, frontVars, loadVars, allVars>>

ThemeOf(label) == label = "tabbed_dark"

\* create_tabbed_benchmark_page, first white, then dark.
TabbedPage ==
    /\ mpc \in {"tabbed_white", "tabbed_dark"}
    /\ FigureKeys(benchmark_data) # <<>>
    /\ written' = written \cup PageFiles(ThemeOf(mpc))
    /\ mpc' = After(mpc)
    /\ UNCHANGED <<mi, outcome, attempts, frontier_data, ppc, benchmark_data,
                   use_dark_theme, page, fetchVars, pipeVars, frontVars, loadVars, allVars>>

\* With no figure, the page's IndexError leaves main().
TabbedPageFails ==
    /\ mpc \in {"tabbed_white", "tabbed_dark"}
    /\ FigureKeys(benchmark_data) = <<>>
    /\ mpc' = "IndexError"
    /\ UNCHANGED <<mi, outcome, attempts, frontier_data, pageVars, fetchVars,
                   pipeVars, frontVars, loadVars, allVars>>

\* One turn of the loop over the individual charts.
IndividualCharts ==
    /\ mpc = "individual" /\ mi <= Len(benchmark_data)
    /\ written' =
           IF NonEmptyEntry(benchmark_data[mi])
           THEN written \cup ChartFiles(benchmark_data[mi].id)
           ELSE written
    /\ mi' = mi + 1
    /\ UNCHANGED <<mpc, outcome, attempts, frontier_data, ppc, benchmark_data,
                   use_dark_theme, page, fetchVars, pipeVars, frontVars, loadVars, allVars>>

\* The loop is over: the list of output files is printed.
Done ==
    /\ mpc = "individual" /\ mi > Len(benchmark_data)
    /\ mpc' = After("individual")
    /\ UNCHANGED <<mi, outcome, attempts, frontier_data, pageVars, fetchVars,
                   pipeVars, frontVars, loadVars, allVars>>

NextMain ==
    \/ LoadMast
    \/ LoadOther
    \/ Summary
    \/ FrontierOf
    \/ FrontiersDone
    \/ FrontierCharts
    \/ TabbedPage
    \/ TabbedPageFails
    \/ IndividualCharts
    \/ Done

(***************************************************************************)
(* The Filter/Merge pipeline, one stage per step.                           *)
(***************************************************************************)
NoTable == EmptyTable({})

InitPipe ==
    /\ pc = "start"
    /\ metrics_df \in RawTables
    /\ dates_df \in DateTables
    /\ filtered = NoTable
    /\ merged = NoTable
    /\ chart = NoTable

DfAfterFilterInPlace(t) == filter_mast_metrics(t)

\* What filter_mast_metrics leaves in its argument: df[mask].copy() and
\* rename(columns=...) build new tables, nothing is assigned into df.
DfAfterFilter(t) == t

\* What merge_with_dates leaves in its arguments: pd.merge builds a new
\* table, and the provider column is assigned into that one.
ArgsAfterMerge(m, d) == [metrics_df |-> m, dates_df |-> d]

\* What sorting and the CI bounds leave in the merged table: sort_values
\* builds a new table, and the bounds are assigned into that one.
MergedAfterSort(t) == t

FilterStep ==
    /\ pc = "start"
    /\ filtered' = filter_mast_metrics(metrics_df)
    /\ metrics_df' = DfAfterFilter(metrics_df)
    /\ pc' = "filtered"
    /\ UNCHANGED <<dates_df, merged, chart, frontVars, pageVars, fetchVars, mainVars, loadVars, allVars>>

MergeStep ==
    /\ pc = "filtered"
    /\ merged' = merge_with_dates(filtered, dates_df)
    /\ filtered' = ArgsAfterMerge(filtered, dates_df).metrics_df
    /\ dates_df' = ArgsAfterMerge(filtered, dates_df).dates_df
    /\ pc' = "merged"
    /\ UNCHANGED <<metrics_df, chart, frontVars, pageVars, fetchVars, mainVars, loadVars, allVars>>

SortStep ==
    /\ pc = "merged"
    /\ chart' = AddCiBounds(sort_values_score(merged))
    /\ merged' = MergedAfterSort(merged)
    /\ pc' = "done"
    /\ UNCHANGED <<metrics_df, dates_df, filtered, frontVars, pageVars, fetchVars, mainVars, loadVars, allVars>>

IdleFrontier ==
    /\ fpc = "idle"
    /\ df = NoTable
    /\ benchmark_name = ""
    /\ frontier = <<>>

Init == InitPipe /\ IdleFrontier /\ IdlePage /\ IdleFetch /\ IdleMain /\ IdleLoad /\ IdleLoadAll

Next == FilterStep \/ MergeStep \/ SortStep

Spec == Init /\ [][Next]_vars

(***************************************************************************)
(* The frontier calculation on a table of scored models.                    *)
(***************************************************************************)
IdlePipe ==
    /\ pc = "idle"
    /\ metrics_df = NoTable
    /\ dates_df = NoTable
    /\ filtered = NoTable
    /\ merged = NoTable
    /\ chart = NoTable

InitFrontier ==
    /\ fpc = "start"
    /\ df \in FrontierTables
    /\ benchmark_name \in BENCHMARK_NAMES
    /\ frontier = <<>>

CalculateFrontier ==
    /\ fpc = "start"
    /\ frontier' = calculate_frontier(df, benchmark_name)
    /\ fpc' = "done"
    /\ UNCHANGED <<df, benchmark_name, pipeVars, pageVars, fetchVars, mainVars, loadVars, allVars>>

InitFrontierSpec == InitFrontier /\ IdlePipe /\ IdlePage /\ IdleFetch /\ IdleMain /\ IdleLoad /\ IdleLoadAll

NextFrontier == CalculateFrontier

SpecFrontier == InitFrontierSpec /\ [][NextFrontier]_vars

InitPageSpec == InitPage /\ IdlePipe /\ IdleFrontier /\ IdleFetch /\ IdleMain /\ IdleLoad /\ IdleLoadAll

SpecPage == InitPageSpec /\ [][NextPage]_vars

InitFetchSpec == InitFetch /\ IdlePipe /\ IdleFrontier /\ IdlePage /\ IdleMain /\ IdleLoad /\ IdleLoadAll

SpecFetch == InitFetchSpec /\ [][NextFetch]_vars

InitMainSpec == InitMain /\ IdlePipe /\ IdleFrontier /\ IdleLoad /\ IdleLoadAll

SpecMain == InitMainSpec /\ [][NextMain]_vars

InitLoadSpec ==
    /\ InitLoad /\ IdlePipe /\ IdleFrontier /\ IdlePage /\ IdleFetch /\ IdleMain
    /\ IdleLoadAll

SpecLoad == InitLoadSpec /\ [][NextLoad]_vars

InitLoadAllSpec ==
    /\ InitLoadAll /\ IdlePipe /\ IdleFrontier /\ IdlePage /\ IdleFetch /\ IdleMain
    /\ IdleLoad

SpecLoadAll == InitLoadAllSpec /\ [][NextLoadAll]_vars

(***************************************************************************)
(* Properties of the frontier calculator.                                   *)
(***************************************************************************)
FrontierDone == fpc = "done"

\* The row of the input table that a frontier point was made from.
RowOf(p) == CHOOSE i \in 1..Len(df.rows) : df.rows[i]["model"] = p.model

\* C1: the frontier's score_pct is strictly increasing and its release_date
\* is non-decreasing from each point to the next.
C1_FrontierMonotonic ==
    FrontierDone =>
        \A i \in 1..(Len(frontier) - 1) :
            /\ frontier[i].score_pct < frontier[i + 1].score_pct
            /\ frontier[i].release_date <= frontier[i + 1].release_date

\* Two advances, one row left out, and an input that is not in date order.
C1_Witness ==
    /\ FrontierDone
    /\ Len(frontier) >= 2
    /\ Len(df.rows) > Len(frontier)
    /\ \E i \in 1..(Len(df.rows) - 1) :
           df.rows[i]["release_date"] > df.rows[i + 1]["release_date"]

\* The place of input row i after a stable ascending sort by release_date:
\* behind every row dated earlier, and behind the rows of the same date that
\* come before it in the input.
StableRank(rows, i) ==
    1 + Cardinality({j \in 1..Len(rows) :
            \/ rows[j]["release_date"] < rows[i]["release_date"]
            \/ /\ rows[j]["release_date"] = rows[i]["release_date"]
               /\ j < i})

StablySorted(rows) ==
    [k \in 1..Len(rows) |->
        rows[CHOOSE i \in 1..Len(rows) : StableRank(rows, i) = k]]

\* The positions of a table whose score beats every earlier score.
RecordPositions(rows) ==
    {k \in 1..Len(rows) :
        \A j \in 1..(k - 1) : rows[j]["score"] < rows[k]["score"]}

NthOf(S, n) == CHOOSE k \in S : Cardinality({j \in S : j < k}) = n - 1

Scenario ==
    <<[model |-> "A", score |-> 50, release_date |-> 1],
      [model |-> "B", score |-> 60, release_date |-> 2],
      [model |-> "C", score |-> 55, release_date |-> 3]>>

\* C2: a row is emitted exactly when, in the stable date order, its score is
\* strictly above the score of every row before it; the points come in that
\* order.  Rows A 0.50, B 0.60, C 0.55 in date order give [A 50%, B 60%].
C2_FrontierIsRecords ==
    FrontierDone =>
        LET sorted == StablySorted(df.rows)
            records == RecordPositions(sorted)
        IN  /\ Len(frontier) = Cardinality(records)
            /\ \A n \in 1..Len(frontier) :
                   LET r == sorted[NthOf(records, n)]
                   IN  /\ frontier[n].model = r["model"]
                       /\ frontier[n].release_date = r["release_date"]
            /\ df.rows = Scenario =>
                   /\ Len(frontier) = 2
                   /\ frontier[1].model = "A" /\ frontier[1].score_pct = 5000
                   /\ frontier[2].model = "B" /\ frontier[2].score_pct = 6000

C2_Witness == FrontierDone /\ df.rows = Scenario

TableMax ==
    CHOOSE m \in {df.rows[i]["score"] : i \in 1..Len(df.rows)} :
        \A i \in 1..Len(df.rows) : df.rows[i]["score"] <= m

\* C3: one scale per table: every score_pct is the raw score times 100 when
\* the table's maximum raw score is at most 1.5, and the raw score otherwise.
C3_OneScalePerTable ==
    (FrontierDone /\ df.rows # <<>>) =>
        LET mx == TableMax
        IN  \A n \in 1..Len(frontier) :
                LET raw == df.rows[RowOf(frontier[n])]["score"]
                IN  frontier[n].score_pct =
                        IF mx <= ScaleThreshold THEN raw * 100 ELSE raw

\* A percentage-scaled table whose frontier starts below the threshold.
C3_Witness ==
    /\ FrontierDone
    /\ Len(frontier) >= 2
    /\ TableMax > ScaleThreshold
    /\ df.rows[RowOf(frontier[1])]["score"] \in 1..ScaleThreshold

\* C4: when every raw score is at most 1.0, every score_pct is the raw score
\* times 100.
C4_FractionsTimes100 ==
    (FrontierDone /\ \A i \in 1..Len(df.rows) : df.rows[i]["score"] <= 100) =>
        \A n \in 1..Len(frontier) :
            frontier[n].score_pct = df.rows[RowOf(frontier[n])]["score"] * 100

C4_Witness ==
    /\ FrontierDone
    /\ Len(frontier) >= 2
    /\ \A i \in 1..Len(df.rows) : df.rows[i]["score"] <= 100

(***************************************************************************)
(* Properties of the Filter/Merge pipeline.                                 *)
(***************************************************************************)
Filtered == pc \in {"filtered", "merged", "done"}
Merged == pc \in {"merged", "done"}

Satisfies(r) ==
    /\ r["Team"] = FILTER_CONFIG.team
    /\ r["Condition"] = FILTER_CONFIG.condition
    /\ r["Metric"] = FILTER_CONFIG.metric

\* The input rows that satisfy all three predicates.
Wanted == {i \in 1..Len(metrics_df.rows) : Satisfies(metrics_df.rows[i])}

NthWanted(n) == NthOf(Wanted, n)

\* C5: the filtered rows are exactly the input rows whose Team, Condition and
\* Metric equal the configured predicates, and every merged row satisfies
\* the predicates too.
C5_FilterExact ==
    /\ Filtered =>
        /\ Len(filtered.rows) = Cardinality(Wanted)
        /\ \A n \in 1..Len(filtered.rows) :
               LET in == metrics_df.rows[NthWanted(n)]
                   out == filtered.rows[n]
               IN  /\ Satisfies(out)
                   /\ out["model"] = in["Model"]
                   /\ out["provider"] = in["Provider"]
                   /\ out["score"] = in["mean"]
    /\ Merged => \A n \in 1..Len(merged.rows) : Satisfies(merged.rows[n])
    /\ pc = "done" => \A n \in 1..Len(chart.rows) : Satisfies(chart.rows[n])

\* A kept row, a row that fails only the metric, and a merged row.
C5_Witness ==
    /\ pc = "done"
    /\ Wanted # {}
    /\ \E i \in 1..Len(metrics_df.rows) :
           /\ metrics_df.rows[i]["Metric"] # FILTER_CONFIG.metric
           /\ metrics_df.rows[i]["Team"] = FILTER_CONFIG.team
           /\ metrics_df.rows[i]["Condition"] = FILTER_CONFIG.condition
    /\ chart.rows # <<>>

Min(a, b) == IF a <= b THEN a ELSE b

UniqueModels(rows) ==
    \A i, j \in 1..Len(rows) : i # j => rows[i]["model"] # rows[j]["model"]

\* The pairs of a score row and a release-date row of the same model.
JoinPairs ==
    {p \in (1..Len(filtered.rows)) \X (1..Len(dates_df.rows)) :
        filtered.rows[p[1]]["model"] = dates_df.rows[p[2]]["model"]}

\* C6 as stated: the merged row count is at most the smaller of the two
\* input row counts, whatever the tables hold.
C6_MergeNeverGrows ==
    Merged => Len(merged.rows) <= Min(Len(filtered.rows), Len(dates_df.rows))

\* C6 amended: the merged table has one row per pair of a score row and a
\* release-date row of the same model; when no model name is repeated in
\* either table that count is at most the smaller input row count.
C6_MergeCount ==
    Merged =>
        /\ Len(merged.rows) = Cardinality(JoinPairs)
        /\ (UniqueModels(filtered.rows) /\ UniqueModels(dates_df.rows)) =>
               Len(merged.rows) <= Min(Len(filtered.rows), Len(dates_df.rows))

C6_Witness ==
    /\ Merged
    /\ UniqueModels(filtered.rows) /\ UniqueModels(dates_df.rows)
    /\ Len(filtered.rows) = 2 /\ Len(dates_df.rows) = 2
    /\ Len(merged.rows) = 2

ModelsOf(rows) == {rows[i]["model"] : i \in 1..Len(rows)}

\* C7: no merged row has a model that is missing from the score table or
\* from the release-date table; a score row without a release date leaves
\* no row behind.
C7_UnmatchedDropped ==
    Merged =>
        /\ ModelsOf(merged.rows) \subseteq
               ModelsOf(filtered.rows) \cap ModelsOf(dates_df.rows)
        /\ \A i \in 1..Len(filtered.rows) :
               filtered.rows[i]["model"] \notin ModelsOf(dates_df.rows) =>
                   filtered.rows[i]["model"] \notin ModelsOf(merged.rows)

\* One score row is dropped for want of a date while another is merged.
C7_Witness ==
    /\ Merged
    /\ merged.rows # <<>>
    /\ \E i \in 1..Len(filtered.rows) :
           filtered.rows[i]["model"] \notin ModelsOf(dates_df.rows)

BothHaveProvider == "provider" \in filtered.cols /\ "provider" \in dates_df.cols

\* C8: with a provider column on both sides, a merged row's provider is the
\* release-date table's value when present and the score table's otherwise,
\* and only the one provider column remains.
C8_ProviderPrefersDates ==
    (Merged /\ BothHaveProvider) =>
        /\ "provider" \in merged.cols
        /\ "provider_dates" \notin merged.cols
        /\ "provider_metrics" \notin merged.cols
        /\ \A n \in 1..Len(merged.rows) :
               LET r == merged.rows[n]
                   d == dates_df.rows[r["release_date"]]
               IN  /\ DOMAIN r = merged.cols
                   /\ d["provider"] # NA => r["provider"] = d["provider"]
                   /\ d["provider"] = NA =>
                          \E i \in 1..Len(filtered.rows) :
                              /\ filtered.rows[i]["model"] = r["model"]
                              /\ filtered.rows[i]["score"] = r["score"]
                              /\ filtered.rows[i]["provider"] = r["provider"]

\* One merged row takes the date table's provider, another falls back.
C8_Witness ==
    /\ Merged /\ BothHaveProvider
    /\ \E n \in 1..Len(merged.rows) :
           dates_df.rows[merged.rows[n]["release_date"]]["provider"] = NA
    /\ \E n \in 1..Len(merged.rows) :
           dates_df.rows[merged.rows[n]["release_date"]]["provider"] # NA

\* C9: the pipeline's table is sorted by score, highest first.
C9_SortedDescending ==
    pc = "done" =>
        \A i, j \in 1..Len(chart.rows) :
            i < j => chart.rows[i]["score"] >= chart.rows[j]["score"]

\* The merged table had a lower score ahead of a higher one.
C9_Witness ==
    /\ pc = "done"
    /\ \E i, j \in 1..Len(merged.rows) :
           i < j /\ merged.rows[i]["score"] < merged.rows[j]["score"]

(***************************************************************************)
(* Empty inputs.                                                            *)
(***************************************************************************)
\* The data stages on empty tables: no rows in, no rows out.
DataStagesEmpty ==
    /\ (Filtered /\ metrics_df.rows = <<>>) => filtered.rows = <<>>
    /\ (Merged /\ (filtered.rows = <<>> \/ dates_df.rows = <<>>)) =>
           merged.rows = <<>>
    /\ (pc = "done" /\ merged.rows = <<>>) => chart.rows = <<>>
    /\ (FrontierDone /\ df.rows = <<>>) => frontier = <<>>

\* C10: every stage given an empty input returns an empty output and raises
\* no error: the filter, the merge, the frontier calculator, and the tabbed
\* page on an empty benchmark_data mapping.
C10_EmptyInEmptyOut ==
    /\ DataStagesEmpty
    /\ (ppc # "start" /\ benchmark_data = <<>>) => ppc # "IndexError"

(***************************************************************************)
(* Properties of fetch_mast_metrics.                                        *)
(***************************************************************************)
Called == ncalls > 0

Downloaded == fcall.requests > 0

\* C13: a call downloads exactly when there is no cache file or force_refresh
\* is set; after a successful download the cache file holds the downloaded
\* text; a call without force_refresh on an existing cache returns the cached
\* content and makes no request.
C13_CacheOrDownload ==
    Called =>
        /\ Downloaded <=> (fcall.cache_before = NA \/ fcall.force_refresh)
        /\ (Downloaded /\ fcall.raised = NA) =>
               /\ cache # NA
               /\ cache = fcall.response
               /\ fcall.returned = fcall.response
        /\ (fcall.cache_before # NA /\ ~fcall.force_refresh) =>
               /\ fcall.requests = 0
               /\ fcall.returned = fcall.cache_before
               /\ cache = fcall.cache_before

\* A download filled the cache, and a later call read it back: the last call
\* made no request and returned a text that only a download could have put
\* there.
C13_Witness ==
    /\ ncalls >= 2
    /\ ~Downloaded
    /\ fcall.returned \in Texts
    /\ ~fcall.force_refresh

\* C20: a failed download raises and leaves the cache as it was: no file
\* appears where none was, and under force_refresh the old content stays.
C20_FailureKeepsCache ==
    (Called /\ fcall.raised # NA) =>
        /\ fcall.raised \in RequestFailures
        /\ fcall.returned = NA
        /\ cache = fcall.cache_before

\* A forced refresh of an existing cache that met a non-success status.
C20_Witness ==
    /\ Called
    /\ fcall.raised = "HTTPError"
    /\ fcall.force_refresh
    /\ fcall.cache_before # NA

(***************************************************************************)
(* main(): loading, phases and artifacts                                    *)
(***************************************************************************)
Ids(data) == {data[i].id : i \in DOMAIN data}

\* The load block of source s is over.
LoadOver(s) ==
    \/ mpc \notin {"idle", "load"}
    \/ mpc = "load" /\ \E i \in 1..(mi - 1) : BENCHMARK_IDS[i] = s

LoadFailed(s) ==
    \/ s = "mast" /\ fcall.raised # NA
    \/ outcome[s].error # NA /\ (s = "mast" \/ outcome[s].error = "ParseError")

LoadedRows(s) == ~LoadFailed(s) /\ outcome[s].error = NA /\ outcome[s].rows > 0

ChartNames(s) ==
    {s \o "_benchmark_chart_" \o theme \o ext :
        theme \in {"white", "dark"}, ext \in {".html", ".png"}}

FrontierNames ==
    {"healthcare_benchmark_frontier_" \o theme \o ext :
        theme \in {"white", "dark"}, ext \in {".html", ".png"}}

FrontiersComputed ==
    mpc \in {"frontier_charts", "tabbed_white", "tabbed_dark", "individual",
             "done", "IndexError"}

\* C11: the failure of one load never keeps main() from another load: once
\* the load blocks are over every source has been attempted, and
\* benchmark_data holds exactly the sources whose load succeeded with at
\* least one row.
C11_EveryLoadAttempted ==
    /\ mpc \in {"idle", "load", "summary", "frontier", "frontier_charts",
                "tabbed_white", "tabbed_dark", "individual", "done",
                "IndexError"}
    /\ \A s \in BenchmarkIdSet :
          LoadOver(s) =>
              /\ attempts[s] = 1
              /\ s \in Ids(benchmark_data) <=> LoadedRows(s)

C11_Witness ==
    /\ mpc = "done"
    /\ fcall.raised # NA
    /\ outcome["healthbench"].error = "ParseError"
    /\ Ids(benchmark_data) = {"medqa", "medhelm"}

\* C12: whatever loads fail, main() does not end in an error.
C12_NoErrorEndsMain == mpc # "IndexError"

\* C14: nothing is retried: a call of fetch_mast_metrics makes at most one
\* request, and a run of main() starts the load of each source at most once.
C14_NoRetry ==
    /\ fcall.requests <= 1
    /\ mpc # "idle" =>
          /\ ncalls <= 1
          /\ \A s \in BenchmarkIdSet : attempts[s] <= 1

C14_Witness ==
    /\ mpc = "done"
    /\ fcall.raised = "RequestException"
    /\ fcall.requests = 1
    /\ attempts["mast"] = 1

\* C16: a completed run has written the chart of every benchmark in
\* benchmark_data in white and in dark and, if a frontier was computed, the
\* combined frontier chart in both themes; no chart of a source that is not
\* in benchmark_data is ever written.
C16_ChartsOfLoadedOnly ==
    /\ mpc = "done" =>
          /\ \A s \in Ids(benchmark_data) : ChartNames(s) \subseteq written
          /\ frontier_data # <<>> => FrontierNames \subseteq written
    /\ mpc # "idle" =>
          \A s \in BenchmarkIdSet \ Ids(benchmark_data) :
              ChartNames(s) \cap written = {}

C16_Witness ==
    /\ mpc = "done"
    /\ Ids(benchmark_data) = {"mast", "medhelm"}
    /\ outcome["healthbench"].error = "ParseError"
    /\ outcome["medqa"].rows = 0
    /\ FrontierNames \subseteq written

\* C18: the phases of main() keep their order: no frontier is computed
\* before all four loads were attempted, and nothing is written before
\* every frontier is computed.
C18_PhasesInOrder ==
    mpc # "idle" =>
        /\ frontier_data # <<>> =>
              \A s \in BenchmarkIdSet : attempts[s] = 1
        /\ written # {} =>
              /\ \A s \in BenchmarkIdSet : attempts[s] = 1
              /\ frontier_data = FigureKeys(benchmark_data)

C18_Witness ==
    /\ mpc = "tabbed_white"
    /\ written = FrontierNames
    /\ Len(frontier_data) = 2

\* C19: benchmark_data never holds an empty table; once the frontier loop
\* is over frontier_data has the keys of benchmark_data; a completed run
\* has written the charts of every benchmark of the summary.
C19_NoEmptyBenchmark ==
    mpc # "idle" =>
        /\ \A i \in DOMAIN benchmark_data : benchmark_data[i].len > 0
        /\ FrontiersComputed =>
              frontier_data = [i \in DOMAIN benchmark_data |-> benchmark_data[i].id]
        /\ mpc = "done" =>
              \A i \in DOMAIN benchmark_data :
                  ChartNames(benchmark_data[i].id) \subseteq written

C19_Witness ==
    /\ mpc = "done"
    /\ Len(benchmark_data) = 3
    /\ \E s \in BenchmarkIdSet :
          outcome[s] = [error |-> NA, rows |-> 0] /\ s \notin Ids(benchmark_data)

(***************************************************************************)
(* The loaders and the release_date column                                  *)
(***************************************************************************)
ClaimedLoaders == {"load_benchmark_data", "load_other_benchmark"}

\* The loader was given a table: the file is there, the benchmark is known.
GivenTable == csv.exists /\ benchmark_id \in BenchmarkIdSet

\* C15: a loader given a table with a release_date column returns it with
\* every value of the column converted, or fails, returning no table, if a
\* value cannot be parsed; given a table without the column it does not
\* fail.  Claimed for load_benchmark_data and load_other_benchmark.
C15_DatesParsedIfPresent ==
    (loaded.loader \in ClaimedLoaders /\ GivenTable) =>
        IF "release_date" \in csv.table.cols
        THEN IF AllParse(csv.table)
             THEN /\ loaded.error = NA
                  /\ Len(loaded.table.rows) = Len(csv.table.rows)
                  /\ \A i \in 1..Len(loaded.table.rows) :
                        loaded.table.rows[i]["release_date"]
                            \in Timestamps \cup {"NaT"}
             ELSE /\ loaded.error # NA
                  /\ loaded.table = EmptyTable({})
        ELSE loaded.error = NA

(***************************************************************************)
(* The processing functions and their arguments                             *)
(***************************************************************************)
\* C17: filter_mast_metrics, merge_with_dates and prepare_chart_data leave
\* the tables passed to them as they were: no step of the pipeline changes
\* the raw metrics or the release dates, the merge does not change the
\* filtered table, and sorting with the CI bounds does not change the
\* merged table; each result is a table of its own.
C17_ArgumentsUnchanged ==
    [][/\ metrics_df' = metrics_df
       /\ dates_df' = dates_df
       /\ pc = "filtered" => filtered' = filtered
       /\ pc = "merged" => (filtered' = filtered /\ merged' = merged)]_vars

C17_Witness ==
    /\ pc = "done"
    /\ Len(metrics_df.rows) = 2
    /\ Len(filtered.rows) = 1
    /\ filtered.cols # metrics_df.cols
    /\ Len(merged.rows) = 2
    /\ chart # merged
    /\ "provider" \in merged.cols /\ "provider_dates" \notin merged.cols

(***************************************************************************)
(* load_all_benchmarks and the failure of one benchmark                     *)
(***************************************************************************)
LoadAllOver == apc \in {"returned", "raised"}

\* The configured benchmarks whose file load_benchmark_data can load.
Loadable ==
    {id \in BenchmarkIdSet : load_benchmark_data(data_dir[id], id).error = NA}

\* C21: load_all_benchmarks returns a mapping: a benchmark whose file is
\* missing, or whose load fails for another reason, is left out, and the
\* other benchmarks are loaded; the keys are the benchmarks that load.
C21_FailuresConfined ==
    LoadAllOver =>
        /\ apc = "returned"
        /\ Ids(all_data) = Loadable

(***************************************************************************)
(* The tabbed page: the active tab, the active attribution and the figure   *)
(***************************************************************************)
\* The script of the page has run.
PageLoaded == ppc = "loaded"

\* One tab and one attribution block are active, both of the benchmark
\* whose figure is shown.
OneActiveBenchmark ==
    /\ Cardinality(page.activeTabs) = 1
    /\ Cardinality(page.activeAttributions) = 1
    /\ \A i \in page.activeTabs : page.tabs[i] = page.currentBenchmark
    /\ page.activeAttributions = {page.currentBenchmark}
    /\ page.currentBenchmark \in SeqRange(page.attributions)
    /\ page.shown = page.currentBenchmark

\* C22 as stated: after page load and after any clicks one tab and one
\* attribution are active, of the benchmark shown, and page load shows the
\* first benchmark of benchmark_data.
C22_FirstOfBenchmarkData ==
    /\ [](PageLoaded => OneActiveBenchmark)
    /\ [][ppc = "written" =>
             page'.currentBenchmark = benchmark_data[1].id]_vars

\* C22, amended: after page load and after any clicks one tab and one
\* attribution are active, of the benchmark shown, and page load shows the
\* first benchmark of benchmark_data that has at least one row.
C22_FirstWithRows ==
    /\ [](PageLoaded => OneActiveBenchmark)
    /\ [][ppc = "written" =>
             /\ page'.currentBenchmark = FigureKeys(benchmark_data)[1]
             /\ \E i \in DOMAIN benchmark_data :
                   /\ benchmark_data[i].id = page'.currentBenchmark
                   /\ benchmark_data[i].len > 0
                   /\ \A j \in 1..(i - 1) : benchmark_data[j].len = 0]_vars

C22_Witness ==
    /\ PageLoaded
    /\ Len(page.tabs) >= 2
    /\ page.tabs # page.attributions
    /\ page.activeTabs = {2}
    /\ benchmark_data[1].len = 0

====
